---- MODULE Spec2Model ----
(***************************************************************************)
(* Model of hyprland-vibrance (src/hyprland-vibrance/src/main.rs).         *)
(*                                                                         *)
(* The program connects to the compositor, does one round-trip to learn    *)
(* the globals, binds the foreign-toplevel manager and then loops:         *)
(* blocking_dispatch (which runs the Dispatch handlers on a batch of       *)
(* events), derive the desired outputs, diff_lists against the outputs     *)
(* that carry the custom CTM, send set_ctm_for_output requests, commit.    *)
(*                                                                         *)
(* Option<T> is modelled as a sequence of length at most one:              *)
(*   None == <<>>,  Some(x) == <<x>>.                                      *)
(* f64 values are modelled exactly as scaled integers: a saturation is     *)
(* held in tenths, a matrix coefficient in thirtieths.                     *)
(***************************************************************************)
EXTENDS Integers, Sequences, FiniteSets, TLC

VARIABLES
    pc,                           \* position of main: "roundtrip", "running", "exited"
    args,                         \* Cli: sat_level, title_match
    init,                         \* AppState.init : Option<InitAppState>
    top_levels,                   \* AppState.top_levels : Vec<TopLevelInfo>
    focused_top_level_object_id,  \* AppState.focused_top_level_object_id : Option<ObjectId>
    bound_outputs,                \* the wl_output globals bound so far
    top_level_manager_bound,      \* has main bound ZwlrForeignToplevelManagerV1
    outputs_with_custom_ctm,      \* main's Vec<WlOutput>
    ctm,                          \* per output, the matrix of the last set_ctm_for_output
                                  \* (the identity while none was sent: no transform applied)
    requests,                     \* the requests the loop body sent after the last blocking_dispatch,
                                  \* in order; emptied when the next blocking_dispatch runs a handler
    event,                        \* the event handled by the last step (kind "none": a step of main)
    before,                       \* what the handler of that event found: the tracked focus, whether
                                  \* the event's handle was registered and occupied the event's output
    diff_old, diff_new, diff_out, \* a call of diff_lists on arbitrary slices
    burst,                        \* a burst of events about one new window: its handle, title and
                                  \* output, and the registry the burst arrives at
    in_flight,                    \* the events of the burst not yet dispatched
    activated,                    \* the handle of the latest state event with "activated" (Option)
    ended_since                   \* the handles with a state event without "activated", or a
                                  \* closed event, after that one

mainVars == <<pc, args, init, top_levels, focused_top_level_object_id,
              bound_outputs, top_level_manager_bound, outputs_with_custom_ctm,
              ctm, requests, event, before>>
diffVars == <<diff_old, diff_new, diff_out>>
burstVars == <<burst, in_flight>>
trackVars == <<activated, ended_since>>
vars == <<mainVars, diffVars, burstVars, trackVars>>

(***************************************************************************)
(* Universe of the model.                                                  *)
(***************************************************************************)
Handles == {"h1", "h2"}
Displays == {"d1", "d2"}
DiffElems == {"d1", "d2", "d3"}
Titles == {"Terminal", "terminal"}
TitleMatch == <<"Terminal">>
SatLevels == {10}
MaxLen == 3

None == <<>>
Some(x) == <<x>>
IsSome(o) == o # <<>>
Unwrap(o) == o[1]

Range(s) == {s[i] : i \in 1..Len(s)}
NoDup(s) == \A i, j \in 1..Len(s) : i # j => s[i] # s[j]
SeqsUpTo(S, n) == UNION {[1..k -> S] : k \in 0..n}
RemoveAt(s, idx) == SubSeq(s, 1, idx - 1) \o SubSeq(s, idx + 1, Len(s))

HYPERLAND_CTM_CONTROL_MANAGER_IFACE == "hyprland_ctm_control_manager_v1"
ZWLR_TOP_LEVEL_MANAGER_IFACE == "zwlr_foreign_toplevel_manager_v1"
WL_OUTPUT_IFACE == "wl_output"
OTHER_IFACE == "wl_seat"

(***************************************************************************)
(* TopLevelInfo                                                            *)
(***************************************************************************)
TopLevelInfo_new(handle) ==
    [handle |-> handle, title |-> None, current_outputs |-> <<>>]

RECURSIVE position(_, _, _)
\* Iterator::position over s from index i: Some(first index whose element is x)
position(s, x, i) ==
    IF i > Len(s) THEN None
    ELSE IF s[i] = x THEN Some(i)
    ELSE position(s, x, i + 1)

push_current_output_nocheck(outs, handle) ==
    Append(outs, handle)

push_current_output(outs, handle) ==
    IF ~IsSome(position(outs, handle, 1)) THEN Append(outs, handle) ELSE outs

pop_current_output_or_last(outs, handle) ==
    LET idx == position(outs, handle, 1) IN
    IF IsSome(idx) THEN RemoveAt(outs, Unwrap(idx))
    ELSE IF outs # <<>> THEN RemoveAt(outs, Len(outs))
    ELSE outs

pop_current_output(outs, handle) ==
    LET idx == position(outs, handle, 1) IN
    IF IsSome(idx) THEN RemoveAt(outs, Unwrap(idx)) ELSE outs

(***************************************************************************)
(* AppState                                                                *)
(***************************************************************************)
index_of_top_level_for_object_id(tls, id) ==
    position([i \in 1..Len(tls) |-> tls[i].handle], id, 1)

focused_top_level(tls, focus) ==
    IF ~IsSome(focus) THEN None
    ELSE LET idx == index_of_top_level_for_object_id(tls, Unwrap(focus)) IN
         IF IsSome(idx) THEN Some(tls[Unwrap(idx)]) ELSE None

get_or_create_top_level_always_push(tls, handle) ==
    [top_levels |-> Append(tls, TopLevelInfo_new(handle)), idx |-> Len(tls) + 1]

\* Returns the registry after the call and the index of the returned entry.
get_or_create_top_level(tls, handle) ==
    LET existing_idx == index_of_top_level_for_object_id(tls, handle)
        new_insert_idx == Len(tls) + 1
    IN  [top_levels |-> IF ~IsSome(existing_idx)
                        THEN Append(tls, TopLevelInfo_new(handle))
                        ELSE tls,
         idx |-> IF IsSome(existing_idx) THEN Unwrap(existing_idx) ELSE new_insert_idx]

notify_top_level_focus_changed_clearany(focus, changed_handle, focused) ==
    IF focused THEN Some(changed_handle) ELSE None

notify_top_level_focus_changed_only_if_none(focus, changed_handle, focused) ==
    IF focused THEN (IF focus = None THEN Some(changed_handle) ELSE focus)
    ELSE IF focus = Some(changed_handle) THEN None
    ELSE focus

notify_top_level_focus_changed_ignore_deactivate(focus, changed_handle, focused) ==
    IF focused THEN Some(changed_handle) ELSE focus

notify_top_level_focus_changed(focus, changed_handle, focused) ==
    IF focused THEN Some(changed_handle)
    ELSE IF focus = Some(changed_handle) THEN None
    ELSE focus

notify_top_level_closed_keepfocus(tls, focus, handle) ==
    LET idx == index_of_top_level_for_object_id(tls, handle) IN
    IF IsSome(idx)
    THEN [top_levels |-> RemoveAt(tls, Unwrap(idx)), focus |-> focus]
    ELSE [top_levels |-> tls, focus |-> focus]

notify_top_level_closed_clearany(tls, focus, handle) ==
    LET idx == index_of_top_level_for_object_id(tls, handle) IN
    IF IsSome(idx)
    THEN [top_levels |-> RemoveAt(tls, Unwrap(idx)), focus |-> None]
    ELSE [top_levels |-> tls, focus |-> focus]

notify_top_level_closed_remove_first(tls, focus, handle) ==
    LET idx == index_of_top_level_for_object_id(tls, handle) IN
    IF IsSome(idx)
    THEN [top_levels |-> RemoveAt(tls, 1),
          focus |-> IF Some(handle) = focus THEN None ELSE focus]
    ELSE [top_levels |-> tls, focus |-> focus]

\* Returns the registry and the focus after the call.
notify_top_level_closed(tls, focus, handle) ==
    LET idx == index_of_top_level_for_object_id(tls, handle) IN
    IF IsSome(idx)
    THEN [top_levels |-> RemoveAt(tls, Unwrap(idx)),
          focus |-> IF Some(handle) = focus THEN None ELSE focus]
    ELSE [top_levels |-> tls, focus |-> focus]

(***************************************************************************)
(* CTM matrices, coefficients in thirtieths, saturation in tenths.         *)
(***************************************************************************)
SATURATION == 33

calc_ctm_matrix(saturation) ==
    LET coeff == 10 - saturation IN
    [i \in 1..9 |-> coeff + (IF ((i - 1) % 4) = 0 THEN 3 * saturation ELSE 0)]

IdentityMatrix == <<30, 0, 0, 0, 30, 0, 0, 0, 30>>

SetCtm(display, matrix) == [op |-> "set_ctm_for_output", output |-> display, matrix |-> matrix]
Commit == [op |-> "commit", output |-> "", matrix |-> <<>>]

clear_ctm_matrix_for_display(display) == SetCtm(display, IdentityMatrix)

set_sat_ctm_for_display(display, saturation) == SetCtm(display, calc_ctm_matrix(saturation))

(***************************************************************************)
(* diff_lists                                                              *)
(***************************************************************************)
contains_ref_first_only(haystack, needle) ==
    haystack # <<>> /\ Head(haystack) = needle

RECURSIVE contains_ref(_, _)
contains_ref(haystack, needle) ==
    IF haystack = <<>> THEN FALSE
    ELSE IF Head(haystack) = needle THEN TRUE
    ELSE contains_ref(Tail(haystack), needle)

diff_lists_swapped(old, new) ==
    LET first[i \in 0..Len(old)] ==
            IF i = 0 THEN [removed |-> <<>>, unchanged |-> <<>>]
            ELSE IF contains_ref(new, old[i])
                 THEN [first[i - 1] EXCEPT !.removed = Append(@, old[i])]
                 ELSE [first[i - 1] EXCEPT !.unchanged = Append(@, old[i])]
        second[j \in 0..Len(new)] ==
            IF j = 0 THEN <<>>
            ELSE IF ~contains_ref(old, new[j])
                 THEN Append(second[j - 1], new[j])
                 ELSE second[j - 1]
    IN  [removed |-> first[Len(old)].removed,
         unchanged |-> first[Len(old)].unchanged,
         added |-> second[Len(new)]]

diff_lists_addall(old, new) ==
    LET first[i \in 0..Len(old)] ==
            IF i = 0 THEN [removed |-> <<>>, unchanged |-> <<>>]
            ELSE IF contains_ref(new, old[i])
                 THEN [first[i - 1] EXCEPT !.unchanged = Append(@, old[i])]
                 ELSE [first[i - 1] EXCEPT !.removed = Append(@, old[i])]
    IN  [removed |-> first[Len(old)].removed,
         unchanged |-> first[Len(old)].unchanged,
         added |-> new]

diff_lists(old, new) ==
    LET \* for old_value in old.iter()
        first[i \in 0..Len(old)] ==
            IF i = 0 THEN [removed |-> <<>>, unchanged |-> <<>>]
            ELSE IF contains_ref(new, old[i])
                 THEN [first[i - 1] EXCEPT !.unchanged = Append(@, old[i])]
                 ELSE [first[i - 1] EXCEPT !.removed = Append(@, old[i])]
        \* for new_value in new.iter()
        second[j \in 0..Len(new)] ==
            IF j = 0 THEN <<>>
            ELSE IF ~contains_ref(old, new[j])
                 THEN Append(second[j - 1], new[j])
                 ELSE second[j - 1]
    IN  [removed |-> first[Len(old)].removed,
         unchanged |-> first[Len(old)].unchanged,
         added |-> second[Len(new)]]

(***************************************************************************)
(* Events                                                                  *)
(***************************************************************************)
Ev(kind, handle, title, output, active) ==
    [kind |-> kind, handle |-> handle, title |-> title, output |-> output, active |-> active]

NoEvent == Ev("none", "", None, None, FALSE)

Found(focus, known, had_output) ==
    [focus |-> focus, known |-> known, had_output |-> had_output]

NoBefore == Found(None, FALSE, FALSE)

\* What a handler finds when an event about handle h (and output o) arrives.
FoundBy(h, o) ==
    LET idx == index_of_top_level_for_object_id(top_levels, h) IN
    Found(focused_top_level_object_id,
          IsSome(idx),
          IsSome(idx) /\ o \in Range(top_levels[Unwrap(idx)].current_outputs))

\* zwlr_foreign_toplevel_handle_v1::State::Activated
STATE_ACTIVATED == 2

\* The state arrays (of u32 enum values: maximized 0, minimized 1, activated 2,
\* fullscreen 3) the compositor sends in the model.
StateArrays == {<<>>, <<2>>, <<0, 2>>, <<1, 3>>}

\* The wl_array as the handler receives it: Vec<u8>, four bytes per entry.
RECURSIVE state_bytes(_)
state_bytes(arr) ==
    IF arr = <<>> THEN <<>>
    ELSE LET v == Head(arr) IN
         <<v % 256, (v \div 256) % 256, (v \div 65536) % 256, (v \div 16777216) % 256>>
             \o state_bytes(Tail(arr))

state_is_focused(arr) == IsSome(position(state_bytes(arr), STATE_ACTIVATED, 1))

(***************************************************************************)
(* The initial state: main up to the round-trip (lines 408-419).           *)
(***************************************************************************)
InitMain ==
    /\ pc = "roundtrip"
    /\ args \in [sat_level : SatLevels, title_match : {TitleMatch}]
    /\ init = Some([ctm_manager |-> FALSE, top_level_manager_global |-> FALSE])
    /\ top_levels = <<>>
    /\ focused_top_level_object_id = None
    /\ bound_outputs = {}
    /\ top_level_manager_bound = FALSE
    /\ outputs_with_custom_ctm = <<>>
    /\ ctm = [d \in Displays |-> IdentityMatrix]
    /\ requests = <<>>
    /\ event = NoEvent
    /\ before = NoBefore

DiffIdle ==
    /\ diff_old = <<>>
    /\ diff_new = <<>>
    /\ diff_out = None

NoBurst == [handle |-> "", title |-> "", output |-> "", top_levels |-> <<>>]

BurstIdle ==
    /\ burst = NoBurst
    /\ in_flight = {}

TrackIdle ==
    /\ activated = None
    /\ ended_since = {}

Init == InitMain /\ DiffIdle /\ BurstIdle /\ TrackIdle

AppStateUnchanged == UNCHANGED <<top_levels, focused_top_level_object_id>>
MainLocalsUnchanged == UNCHANGED <<args, top_level_manager_bound, outputs_with_custom_ctm,
                                   ctm>>

\* A registry handler runs inside roundtrip or inside blocking_dispatch.
InDispatch ==
    /\ pc \in {"roundtrip", "running"}
    /\ pc' = pc
    /\ requests' = <<>>
    /\ before' = FoundBy("", "")

(***************************************************************************)
(* Dispatch<WlRegistry, ()>                                                *)
(***************************************************************************)
\* Any other registry event (global_remove): the `else { return }`.
RegistryGlobalRemove ==
    /\ InDispatch
    /\ event' = Ev("global_remove", "", None, None, FALSE)
    /\ UNCHANGED <<init, bound_outputs>>
    /\ AppStateUnchanged /\ MainLocalsUnchanged

\* The globals the compositor announces in the model.
Globals ==
    {[interface |-> WL_OUTPUT_IFACE, output |-> Some(d)] : d \in Displays}
    \cup {[interface |-> i, output |-> None] :
             i \in {HYPERLAND_CTM_CONTROL_MANAGER_IFACE, ZWLR_TOP_LEVEL_MANAGER_IFACE,
                    OTHER_IFACE}}

\* Binds the toplevel manager in the handler, as soon as it is announced.
RegistryGlobal_binds_manager_at_once(g) ==
    /\ pc \in {"roundtrip", "running"}
    /\ pc' = pc
    /\ requests' = <<>>
    /\ before' = FoundBy("", "")
    /\ g.interface = WL_OUTPUT_IFACE => Unwrap(g.output) \notin bound_outputs
    /\ bound_outputs' = IF g.interface = WL_OUTPUT_IFACE
                        THEN bound_outputs \cup {Unwrap(g.output)}
                        ELSE bound_outputs
    /\ init' = IF ~IsSome(init) THEN init
               ELSE IF g.interface = HYPERLAND_CTM_CONTROL_MANAGER_IFACE
                    THEN Some([Unwrap(init) EXCEPT !.ctm_manager = TRUE])
               ELSE IF g.interface = ZWLR_TOP_LEVEL_MANAGER_IFACE
                    THEN Some([Unwrap(init) EXCEPT !.top_level_manager_global = TRUE])
               ELSE init
    /\ top_level_manager_bound' =
           (top_level_manager_bound \/ g.interface = ZWLR_TOP_LEVEL_MANAGER_IFACE)
    /\ event' = Ev("global", "", None, g.output, FALSE)
    /\ UNCHANGED <<args, outputs_with_custom_ctm, ctm>>
    /\ AppStateUnchanged

\* Event::Global; an output is announced once.
RegistryGlobal(g) ==
    /\ InDispatch
    /\ g.interface = WL_OUTPUT_IFACE => Unwrap(g.output) \notin bound_outputs
    /\ bound_outputs' = IF g.interface = WL_OUTPUT_IFACE
                        THEN bound_outputs \cup {Unwrap(g.output)}
                        ELSE bound_outputs
    /\ init' = IF ~IsSome(init) THEN init
               ELSE IF g.interface = HYPERLAND_CTM_CONTROL_MANAGER_IFACE
                    THEN Some([Unwrap(init) EXCEPT !.ctm_manager = TRUE])
               ELSE IF g.interface = ZWLR_TOP_LEVEL_MANAGER_IFACE
                    THEN Some([Unwrap(init) EXCEPT !.top_level_manager_global = TRUE])
               ELSE init
    /\ event' = Ev("global", "", None, g.output, FALSE)
    /\ AppStateUnchanged /\ MainLocalsUnchanged

(***************************************************************************)
(* main after the round-trip (lines 421-443).                              *)
(***************************************************************************)
StartupNoCtm ==
    /\ pc = "roundtrip"
    /\ ~Unwrap(init).ctm_manager
    /\ init' = None
    /\ pc' = "exited"
    /\ event' = NoEvent
    /\ before' = NoBefore
    /\ UNCHANGED <<requests, bound_outputs>>
    /\ AppStateUnchanged /\ MainLocalsUnchanged

StartupNoTopLevelManager ==
    /\ pc = "roundtrip"
    /\ Unwrap(init).ctm_manager
    /\ ~Unwrap(init).top_level_manager_global
    /\ init' = None
    /\ pc' = "exited"
    /\ event' = NoEvent
    /\ before' = NoBefore
    /\ UNCHANGED <<requests, bound_outputs>>
    /\ AppStateUnchanged /\ MainLocalsUnchanged

StartupBind_without_manager_check ==
    /\ pc = "roundtrip"
    /\ Unwrap(init).ctm_manager
    /\ init' = None
    /\ top_level_manager_bound' = TRUE
    /\ pc' = "running"
    /\ event' = NoEvent
    /\ before' = NoBefore
    /\ UNCHANGED <<args, bound_outputs, outputs_with_custom_ctm, ctm, requests>>
    /\ AppStateUnchanged

StartupBind ==
    /\ pc = "roundtrip"
    /\ Unwrap(init).ctm_manager
    /\ Unwrap(init).top_level_manager_global
    /\ init' = None
    /\ top_level_manager_bound' = TRUE
    /\ pc' = "running"
    /\ event' = NoEvent
    /\ before' = NoBefore
    /\ UNCHANGED <<args, bound_outputs, outputs_with_custom_ctm, ctm, requests>>
    /\ AppStateUnchanged

(***************************************************************************)
(* Dispatch<ZwlrForeignToplevelManagerV1, ()>                              *)
(***************************************************************************)
\* The toplevel events reach the handlers once the manager is bound, whenever
\* the event queue is dispatched (roundtrip, blocking_dispatch).
ToplevelEvents ==
    /\ pc \in {"roundtrip", "running"}
    /\ top_level_manager_bound
    /\ pc' = pc
    /\ requests' = <<>>
    /\ UNCHANGED <<init, bound_outputs>>
    /\ MainLocalsUnchanged

ManagerToplevel(h) ==
    /\ ToplevelEvents
    /\ top_levels' = get_or_create_top_level(top_levels, h).top_levels
    /\ event' = Ev("toplevel", h, None, None, FALSE)
    /\ before' = FoundBy(h, "")
    /\ UNCHANGED focused_top_level_object_id

(***************************************************************************)
(* Dispatch<ZwlrForeignToplevelHandleV1, TopLevelUserData>                 *)
(***************************************************************************)
HandleTitle(h, title) ==
    /\ ToplevelEvents
    /\ LET g == get_or_create_top_level(top_levels, h) IN
       top_levels' = [g.top_levels EXCEPT ![g.idx].title = Some(title)]
    /\ event' = Ev("title", h, Some(title), None, FALSE)
    /\ before' = FoundBy(h, "")
    /\ UNCHANGED focused_top_level_object_id

\* An event can name only an output the client has bound.
HandleOutputEnter(h, output) ==
    /\ ToplevelEvents
    /\ output \in bound_outputs
    /\ LET g == get_or_create_top_level(top_levels, h) IN
       top_levels' = [g.top_levels EXCEPT ![g.idx].current_outputs =
                                               push_current_output(@, output)]
    /\ event' = Ev("output_enter", h, None, Some(output), FALSE)
    /\ before' = FoundBy(h, output)
    /\ UNCHANGED focused_top_level_object_id

HandleOutputLeave(h, output) ==
    /\ ToplevelEvents
    /\ output \in bound_outputs
    /\ LET g == get_or_create_top_level(top_levels, h) IN
       top_levels' = [g.top_levels EXCEPT ![g.idx].current_outputs =
                                               pop_current_output(@, output)]
    /\ event' = Ev("output_leave", h, None, Some(output), FALSE)
    /\ before' = FoundBy(h, output)
    /\ UNCHANGED focused_top_level_object_id

HandleState(h, state) ==
    /\ ToplevelEvents
    /\ LET g == get_or_create_top_level(top_levels, h)
           focused == state_is_focused(state)
       IN  /\ top_levels' = g.top_levels
           /\ focused_top_level_object_id' =
                  notify_top_level_focus_changed(focused_top_level_object_id, h, focused)
           /\ event' = Ev("state", h, None, None, focused)
    /\ before' = FoundBy(h, "")

HandleClosed(h) ==
    /\ ToplevelEvents
    /\ LET g == get_or_create_top_level(top_levels, h)
           c == notify_top_level_closed(g.top_levels, focused_top_level_object_id, h)
       IN  /\ top_levels' = c.top_levels
           /\ focused_top_level_object_id' = c.focus
    /\ event' = Ev("closed", h, None, None, FALSE)
    /\ before' = FoundBy(h, "")

\* The `_ => {}` arm: app_id, done, parent.
HandleOther(h) ==
    /\ ToplevelEvents
    /\ top_levels' = get_or_create_top_level(top_levels, h).top_levels
    /\ event' = Ev("done", h, None, None, FALSE)
    /\ before' = FoundBy(h, "")
    /\ UNCHANGED focused_top_level_object_id

(***************************************************************************)
(* The loop body after blocking_dispatch returns (lines 448-478).          *)
(***************************************************************************)
desired_outputs_nofilter(tls, focus, title_match) ==
    LET ft == focused_top_level(tls, focus) IN
    IF IsSome(ft) THEN Unwrap(ft).current_outputs ELSE <<>>

desired_outputs(tls, focus, title_match) ==
    LET ft == focused_top_level(tls, focus)
        matches(top_level) ==
            IF IsSome(top_level.title)
            THEN IsSome(position(title_match, Unwrap(top_level.title), 1))
            ELSE FALSE
        filtered == IF IsSome(ft) /\ matches(Unwrap(ft)) THEN ft ELSE None
    IN  IF IsSome(filtered) THEN Unwrap(filtered).current_outputs ELSE <<>>

RECURSIVE send_requests(_, _)
\* The compositor-side view after the requests reqs, sent in order.
send_requests(c, reqs) ==
    IF reqs = <<>> THEN c
    ELSE LET r == Head(reqs) IN
         send_requests(IF r.op = "set_ctm_for_output"
                       THEN [c EXCEPT ![r.output] = r.matrix]
                       ELSE c,
                       Tail(reqs))

\* The requests of one loop iteration and the next outputs_with_custom_ctm.
loop_body_keep_unchanged_only(custom, desired) ==
    LET d == diff_lists(custom, desired)
        reqs == [i \in 1..Len(d.removed) |-> clear_ctm_matrix_for_display(d.removed[i])]
                \o [i \in 1..Len(d.added) |-> set_sat_ctm_for_display(d.added[i], SATURATION)]
        changed == d.removed # <<>> \/ d.added # <<>>
    IN  [requests |-> IF changed THEN Append(reqs, Commit) ELSE reqs,
         outputs_with_custom_ctm |-> IF changed THEN d.unchanged ELSE custom]

loop_body_commit_first(custom, desired) ==
    LET d == diff_lists(custom, desired)
        reqs == [i \in 1..Len(d.removed) |-> clear_ctm_matrix_for_display(d.removed[i])]
                \o [i \in 1..Len(d.added) |-> set_sat_ctm_for_display(d.added[i], SATURATION)]
        changed == d.removed # <<>> \/ d.added # <<>>
    IN  [requests |-> IF changed THEN <<Commit>> \o reqs ELSE reqs,
         outputs_with_custom_ctm |-> IF changed THEN d.unchanged \o d.added ELSE custom]

loop_body_resend_unchanged(custom, desired) ==
    LET d == diff_lists(custom, desired)
        reqs == [i \in 1..Len(d.removed) |-> clear_ctm_matrix_for_display(d.removed[i])]
                \o [i \in 1..Len(d.unchanged) |->
                        set_sat_ctm_for_display(d.unchanged[i], SATURATION)]
                \o [i \in 1..Len(d.added) |-> set_sat_ctm_for_display(d.added[i], SATURATION)]
        changed == d.removed # <<>> \/ d.added # <<>>
    IN  [requests |-> IF changed THEN Append(reqs, Commit) ELSE <<>>,
         outputs_with_custom_ctm |-> IF changed THEN d.unchanged \o d.added ELSE custom]

loop_body(custom, desired) ==
    LET d == diff_lists(custom, desired)
        reqs == [i \in 1..Len(d.removed) |-> clear_ctm_matrix_for_display(d.removed[i])]
                \o [i \in 1..Len(d.added) |-> set_sat_ctm_for_display(d.added[i], SATURATION)]
        changed == d.removed # <<>> \/ d.added # <<>>
    IN  [requests |-> IF changed THEN Append(reqs, Commit) ELSE reqs,
         outputs_with_custom_ctm |-> IF changed THEN d.unchanged \o d.added ELSE custom]

Cycle ==
    /\ pc = "running"
    /\ LET desired == desired_outputs(top_levels, focused_top_level_object_id,
                                      args.title_match)
           b == loop_body(outputs_with_custom_ctm, desired)
       IN  /\ requests' = b.requests
           /\ ctm' = send_requests(ctm, b.requests)
           /\ outputs_with_custom_ctm' = b.outputs_with_custom_ctm
    /\ pc' = pc
    /\ event' = NoEvent
    /\ before' = NoBefore
    /\ UNCHANGED <<args, init, bound_outputs, top_level_manager_bound>>
    /\ AppStateUnchanged

\* A step of the program leaves the harness variables alone.
Quiet == UNCHANGED <<diffVars, burstVars, trackVars>>

Next ==
    \/ RegistryGlobalRemove /\ Quiet
    \/ \E g \in Globals : RegistryGlobal(g) /\ Quiet
    \/ StartupNoCtm /\ Quiet
    \/ StartupNoTopLevelManager /\ Quiet
    \/ StartupBind /\ Quiet
    \/ \E h \in Handles : ManagerToplevel(h) /\ Quiet
    \/ \E h \in Handles, t \in Titles : HandleTitle(h, t) /\ Quiet
    \/ \E h \in Handles, d \in Displays : HandleOutputEnter(h, d) /\ Quiet
    \/ \E h \in Handles, d \in Displays : HandleOutputLeave(h, d) /\ Quiet
    \/ \E h \in Handles, s \in StateArrays : HandleState(h, s) /\ Quiet
    \/ \E h \in Handles : HandleClosed(h) /\ Quiet
    \/ \E h \in Handles : HandleOther(h) /\ Quiet
    \/ Cycle /\ Quiet

Spec == Init /\ [][Next]_vars

(***************************************************************************)
(* diff_lists applied to arbitrary slices.                                 *)
(***************************************************************************)
MainIdle ==
    /\ pc = "exited"
    /\ args \in [sat_level : SatLevels, title_match : {TitleMatch}]
    /\ init = None
    /\ top_levels = <<>>
    /\ focused_top_level_object_id = None
    /\ bound_outputs = {}
    /\ top_level_manager_bound = FALSE
    /\ outputs_with_custom_ctm = <<>>
    /\ ctm = [d \in Displays |-> IdentityMatrix]
    /\ requests = <<>>
    /\ event = NoEvent
    /\ before = NoBefore

DiffInit ==
    /\ MainIdle
    /\ BurstIdle
    /\ TrackIdle
    /\ diff_old \in SeqsUpTo(DiffElems, MaxLen)
    /\ diff_new \in SeqsUpTo(DiffElems, MaxLen)
    /\ diff_out = None

DiffCall ==
    /\ diff_out = None
    /\ diff_out' = Some(diff_lists(diff_old, diff_new))
    /\ UNCHANGED <<diff_old, diff_new, mainVars, burstVars, trackVars>>

DiffNext == DiffCall

DiffSpec == DiffInit /\ [][DiffNext]_vars

(***************************************************************************)
(* A burst: the four events about one window that is not yet registered,   *)
(* dispatched in any order inside blocking_dispatch.                       *)
(***************************************************************************)
BurstEvents(b) ==
    {Ev("toplevel", b.handle, None, None, FALSE),
     Ev("title", b.handle, Some(b.title), None, FALSE),
     Ev("output_enter", b.handle, None, Some(b.output), FALSE),
     Ev("state", b.handle, None, None, TRUE)}

\* The states of one registered window.
TopLevelInfos(h) ==
    {[handle |-> h, title |-> t, current_outputs |-> o] :
        t \in {None} \cup {Some(x) : x \in Titles},
        o \in {s \in SeqsUpTo(Displays, Cardinality(Displays)) : NoDup(s)}}

\* The loop is at blocking_dispatch, after an iteration, with at most one
\* other window registered; the burst is about a handle that is not.
BurstInit ==
    /\ DiffIdle
    /\ TrackIdle
    /\ pc = "running"
    /\ args \in [sat_level : SatLevels, title_match : {TitleMatch}]
    /\ init = None
    /\ bound_outputs = Displays
    /\ top_level_manager_bound = TRUE
    /\ requests = <<>>
    /\ event = NoEvent
    /\ before = NoBefore
    /\ \E h \in Handles :
          /\ top_levels \in {<<>>} \cup {<<w>> : w \in TopLevelInfos(CHOOSE o \in Handles : o # h)}
          /\ focused_top_level_object_id \in
                 {None} \cup {Some(top_levels[i].handle) : i \in 1..Len(top_levels)}
          /\ burst \in [handle : {h}, title : Titles, output : Displays,
                        top_levels : {top_levels}]
    /\ outputs_with_custom_ctm =
           desired_outputs(top_levels, focused_top_level_object_id, args.title_match)
    /\ ctm = [d \in Displays |-> IF d \in Range(outputs_with_custom_ctm)
                                 THEN calc_ctm_matrix(SATURATION)
                                 ELSE IdentityMatrix]
    /\ in_flight = BurstEvents(burst)

Dispatched(e) ==
    /\ in_flight' = in_flight \ {e}
    /\ UNCHANGED <<burst, diffVars, trackVars>>

BurstNext ==
    \/ \E e \in in_flight :
          e.kind = "toplevel" /\ ManagerToplevel(e.handle) /\ Dispatched(e)
    \/ \E e \in in_flight :
          e.kind = "title" /\ HandleTitle(e.handle, Unwrap(e.title)) /\ Dispatched(e)
    \/ \E e \in in_flight :
          e.kind = "output_enter" /\ HandleOutputEnter(e.handle, Unwrap(e.output))
              /\ Dispatched(e)
    \/ \E e \in in_flight, s \in StateArrays :
          e.kind = "state" /\ state_is_focused(s) = e.active /\ HandleState(e.handle, s)
              /\ Dispatched(e)

BurstSpec == BurstInit /\ [][BurstNext]_vars

(***************************************************************************)
(* Properties                                                              *)
(***************************************************************************)
\* The loop is at blocking_dispatch and no handler ran since the loop body.
CycleComplete == pc = "running" /\ event.kind = "none"

SaturationMatrix == calc_ctm_matrix(SATURATION)

\* The outputs whose last set_ctm_for_output carried the saturation matrix.
SaturatedDisplays == {d \in Displays : ctm[d] = SaturationMatrix}

\* The registry entries of the tracked focus whose title is one of the filters.
FocusedMatching ==
    {i \in 1..Len(top_levels) :
        /\ focused_top_level_object_id # None
        /\ top_levels[i].handle = focused_top_level_object_id[1]
        /\ top_levels[i].title # None
        /\ \E k \in 1..Len(args.title_match) : args.title_match[k] = top_levels[i].title[1]}

ExpectedDisplays == UNION {Range(top_levels[i].current_outputs) : i \in FocusedMatching}

\* C1: after every iteration of the loop, the outputs whose last transform
\* command is the saturation matrix are exactly the outputs of the focused
\* window when its title is one of the filters, and none otherwise; the
\* retained outputs_with_custom_ctm is the same set.
C1_AppliedIsDesired ==
    CycleComplete =>
        /\ SaturatedDisplays = ExpectedDisplays
        /\ Range(outputs_with_custom_ctm) = ExpectedDisplays

\* An iteration that moved the transform: it cleared one output and the
\* transform stays on another.
C1_Witness ==
    /\ CycleComplete
    /\ outputs_with_custom_ctm # <<>>
    /\ \E i \in 1..Len(requests) :
          requests[i].op = "set_ctm_for_output" /\ requests[i].matrix = IdentityMatrix

DiffDone == diff_out # None

\* C2: for duplicate-free P and D, removed and unchanged partition P,
\* unchanged and added make up D without duplicates, and P minus removed
\* plus added is D.
C2_DiffPartition ==
    (DiffDone /\ NoDup(diff_old) /\ NoDup(diff_new)) =>
        LET r == diff_out[1]
            P == Range(diff_old)
            D == Range(diff_new)
        IN  /\ Range(r.removed) \cup Range(r.unchanged) = P
            /\ Range(r.removed) \cap Range(r.unchanged) = {}
            /\ Range(r.unchanged) \cup Range(r.added) = D
            /\ NoDup(r.unchanged \o r.added)
            /\ (P \ Range(r.removed)) \cup Range(r.added) = D

C2_Witness ==
    /\ DiffDone /\ NoDup(diff_old) /\ NoDup(diff_new)
    /\ diff_out[1].removed # <<>>
    /\ diff_out[1].unchanged # <<>>
    /\ diff_out[1].added # <<>>

\* C3: removed is previous without the elements of desired, unchanged is
\* previous restricted to the elements of desired, added is desired without
\* the elements of previous, each in the order of its source; the inputs
\* are not changed.
C3_DiffResult ==
    /\ [](DiffDone =>
            LET r == diff_out[1]
                InOld(x) == \E i \in 1..Len(diff_old) : diff_old[i] = x
                InNew(x) == \E i \in 1..Len(diff_new) : diff_new[i] = x
                NotInOld(x) == ~InOld(x)
                NotInNew(x) == ~InNew(x)
            IN  /\ r.removed = SelectSeq(diff_old, NotInNew)
                /\ r.unchanged = SelectSeq(diff_old, InNew)
                /\ r.added = SelectSeq(diff_new, NotInOld))
    /\ [][diff_old' = diff_old /\ diff_new' = diff_new]_vars

\* Two elements removed and two added, so the orders show.
C3_Witness ==
    /\ DiffDone
    /\ Len(diff_out[1].removed) >= 2
    /\ diff_out[1].unchanged # <<>>
    /\ Len(diff_out[1].added) >= 2

\* C4: diff(P, P) has removed and added empty and unchanged equal to P.
C4_DiffSelf ==
    (DiffDone /\ diff_old = diff_new) =>
        /\ diff_out[1].removed = <<>>
        /\ diff_out[1].added = <<>>
        /\ diff_out[1].unchanged = diff_old

C4_Witness ==
    /\ DiffDone
    /\ diff_old = diff_new
    /\ Len(diff_old) >= 2
    /\ diff_old[1] # diff_old[2]

\* C5: no window's current_outputs holds an output twice.
C5_OccupancyNoDup ==
    \A i \in 1..Len(top_levels) : NoDup(top_levels[i].current_outputs)

\* An output_enter for an output the window already occupied was handled.
C5_Witness ==
    /\ event.kind = "output_enter"
    /\ before.had_output

\* C6: the tracked focus is None or the handle of a registered window.
C6_FocusRegistered ==
    \/ focused_top_level_object_id = None
    \/ \E i \in 1..Len(top_levels) : top_levels[i].handle = focused_top_level_object_id[1]

\* The focused, registered window was closed.
C6_Witness ==
    /\ event.kind = "closed"
    /\ before.known
    /\ before.focus = Some(event.handle)

\* C7: a closed event for h leaves h out of the registry, clears the tracked
\* focus if it was h and leaves it alone otherwise.
C7_ClosedEffect ==
    [][event'.kind = "closed" =>
          /\ \A i \in 1..Len(top_levels') : top_levels'[i].handle # event'.handle
          /\ focused_top_level_object_id' =
                 IF focused_top_level_object_id = Some(event'.handle)
                 THEN None
                 ELSE focused_top_level_object_id]_vars

\* A registered window was closed while another one had the focus.
C7_Witness ==
    /\ event.kind = "closed"
    /\ before.known
    /\ before.focus # None
    /\ before.focus # Some(event.handle)
    /\ focused_top_level_object_id = before.focus

\* C8: a state event without "activated" for a window that is not the
\* tracked focus leaves the tracked focus unchanged.
C8_StaleDeactivation ==
    [][(/\ event'.kind = "state"
        /\ ~event'.active
        /\ focused_top_level_object_id # Some(event'.handle))
       => focused_top_level_object_id' = focused_top_level_object_id]_vars

\* A deactivation of one window arrived while another one had the focus.
C8_Witness ==
    /\ event.kind = "state"
    /\ ~event.active
    /\ before.focus # None
    /\ before.focus # Some(event.handle)
    /\ focused_top_level_object_id = before.focus

\* C9: the desired outputs are the current_outputs of the focused window when
\* a window is focused, has a title and the title equals one of the filters,
\* and empty in every other case.
C9_DesiredOutputs ==
    desired_outputs(top_levels, focused_top_level_object_id, args.title_match) =
        IF /\ focused_top_level_object_id # None
           /\ \E i \in 1..Len(top_levels) :
                 /\ top_levels[i].handle = focused_top_level_object_id[1]
                 /\ top_levels[i].title # None
                 /\ top_levels[i].title[1] \in Range(args.title_match)
        THEN LET i == CHOOSE i \in 1..Len(top_levels) :
                          top_levels[i].handle = focused_top_level_object_id[1]
             IN  top_levels[i].current_outputs
        ELSE <<>>

\* An iteration ran with the focus on a window on two outputs whose title
\* differs from the filter only in case: nothing is desired, nothing applied.
C9_Witness ==
    /\ CycleComplete
    /\ outputs_with_custom_ctm = <<>>
    /\ \E i \in 1..Len(top_levels) :
          /\ focused_top_level_object_id = Some(top_levels[i].handle)
          /\ top_levels[i].title = Some("terminal")
          /\ Len(top_levels[i].current_outputs) = 2

BurstDone == burst # NoBurst /\ in_flight = {}

\* C10: whatever the order of toplevel, title, output_enter and state
\* (activated) for a handle that was not registered, the registry ends as
\* the one before plus one window with that title on that output, the focus
\* is that window, and so the desired outputs are the same.
C10_OrderIndependent ==
    BurstDone =>
        /\ top_levels = Append(burst.top_levels,
                               [handle |-> burst.handle,
                                title |-> Some(burst.title),
                                current_outputs |-> <<burst.output>>])
        /\ focused_top_level_object_id = Some(burst.handle)
        /\ desired_outputs(top_levels, focused_top_level_object_id, args.title_match) =
               IF burst.title \in Range(args.title_match) THEN <<burst.output>> ELSE <<>>

\* The burst ended with the toplevel event last: the window was created by
\* another of its events.
C10_Witness ==
    /\ BurstDone
    /\ event.kind = "toplevel"
    /\ before.known
    /\ burst.top_levels # <<>>

\* C11: the matrix sent for every added output is the one derived from the
\* configured saturation, args.sat_level.  (The outputs added by an
\* iteration are those of its requests that outputs_with_custom_ctm holds
\* afterwards.)
C11_ConfiguredSaturationSent ==
    CycleComplete =>
        \A i \in 1..Len(requests) :
            (/\ requests[i].op = "set_ctm_for_output"
             /\ requests[i].output \in Range(outputs_with_custom_ctm))
            => requests[i].matrix = calc_ctm_matrix(args.sat_level)

\* C12: when the round-trip ends and the CTM manager or the toplevel manager
\* was not announced, main ends: it does not bind the toplevel manager, no
\* window event is handled, no request is sent, and nothing happens after.
C12_MissingCapabilityEnds ==
    /\ [][(/\ pc = "roundtrip"
           /\ pc' # "roundtrip"
           /\ ~(Unwrap(init).ctm_manager /\ Unwrap(init).top_level_manager_global))
          => pc' = "exited"]_vars
    /\ [](pc = "exited" =>
            /\ ~top_level_manager_bound
            /\ top_levels = <<>>
            /\ focused_top_level_object_id = None
            /\ requests = <<>>
            /\ outputs_with_custom_ctm = <<>>
            /\ \A d \in Displays : ctm[d] = IdentityMatrix)
    /\ [][pc # "exited"]_vars

\* main ended although both outputs were announced in the round-trip.
C12_Witness ==
    /\ pc = "exited"
    /\ bound_outputs = Displays
    /\ ~top_level_manager_bound

\* The current_outputs of the focused window whose title is one of the
\* filters, and the empty sequence when there is none.
FocusedOccupancy ==
    IF FocusedMatching # {}
    THEN top_levels[CHOOSE i \in FocusedMatching : TRUE].current_outputs
    ELSE <<>>

\* A step of the loop body, lines 448-478.
CycleStep == pc = "running" /\ pc' = "running" /\ event'.kind = "none"

RemovedNow == Range(outputs_with_custom_ctm) \ Range(FocusedOccupancy)
AddedNow == Range(FocusedOccupancy) \ Range(outputs_with_custom_ctm)

\* C13: an iteration with something removed or added sends one commit, after
\* all its set_ctm_for_output requests, and keeps unchanged followed by
\* added; an iteration with nothing removed or added sends nothing and
\* keeps outputs_with_custom_ctm.
C13_CommitOnce ==
    [][CycleStep =>
          LET Kept(x) == x \in Range(FocusedOccupancy)
              New(x) == x \notin Range(outputs_with_custom_ctm)
              commits == {i \in 1..Len(requests') : requests'[i].op = "commit"}
          IN  IF RemovedNow # {} \/ AddedNow # {}
              THEN /\ commits = {Len(requests')}
                   /\ Len(requests') >= 2
                   /\ outputs_with_custom_ctm' =
                          SelectSeq(outputs_with_custom_ctm, Kept)
                              \o SelectSeq(FocusedOccupancy, New)
              ELSE /\ requests' = <<>>
                   /\ outputs_with_custom_ctm' = outputs_with_custom_ctm]_vars

\* An iteration cleared one output, set another and then committed.
C13_Witness ==
    /\ CycleComplete
    /\ Len(requests) = 3
    /\ requests[1].matrix = IdentityMatrix
    /\ requests[2].matrix = SaturationMatrix
    /\ requests[3].op = "commit"

\* C14: an iteration sends a set_ctm_for_output for an output exactly when
\* the output is removed (identity matrix) or added (saturation matrix),
\* once; it sends none for an output that stays.
C14_CommandsForChangesOnly ==
    [][CycleStep =>
          \A d \in Displays :
              LET cmds == {i \in 1..Len(requests') :
                              /\ requests'[i].op = "set_ctm_for_output"
                              /\ requests'[i].output = d}
              IN  /\ d \in RemovedNow =>
                         /\ Cardinality(cmds) = 1
                         /\ \A i \in cmds : requests'[i].matrix = IdentityMatrix
                  /\ d \in AddedNow =>
                         /\ Cardinality(cmds) = 1
                         /\ \A i \in cmds : requests'[i].matrix = SaturationMatrix
                  /\ d \notin RemovedNow \cup AddedNow => cmds = {}]_vars

\* The focused window on d1 entered d2 as well: only d2 got a request.
C14_Witness ==
    /\ CycleComplete
    /\ outputs_with_custom_ctm = <<"d1", "d2">>
    /\ Len(requests) = 2
    /\ requests[1].op = "set_ctm_for_output"
    /\ requests[1].output = "d2"

\* C15: a state event with "activated" for h makes h the tracked focus,
\* whatever the tracked focus was.
C15_ActivationOverwrites ==
    [][(event'.kind = "state" /\ event'.active)
       => focused_top_level_object_id' = Some(event'.handle)]_vars

\* A window was activated while another one had the focus.
C15_Witness ==
    /\ event.kind = "state"
    /\ event.active
    /\ before.focus # None
    /\ before.focus # Some(event.handle)
    /\ focused_top_level_object_id = Some(event.handle)

\* The registry entry of handle h, None when h is not registered.
EntryOf(tls, h) ==
    LET found == {i \in 1..Len(tls) : tls[i].handle = h} IN
    IF found = {} THEN None ELSE Some(tls[CHOOSE i \in found : TRUE])

\* An output_leave for an output the window does not occupy.
LeaveOfAbsent ==
    /\ event'.kind = "output_leave"
    /\ \A w \in Range(top_levels) :
          w.handle = event'.handle => event'.output[1] \notin Range(w.current_outputs)

\* C16 as stated: an output_leave for an output that is not among the
\* window's current_outputs, the window registered or not, changes neither
\* the registry nor the tracked focus.
C16_LeaveAbsentIsNoop ==
    [][LeaveOfAbsent =>
          /\ top_levels' = top_levels
          /\ focused_top_level_object_id' = focused_top_level_object_id]_vars

\* C16 amended: such an output_leave leaves the tracked focus alone; it
\* leaves the registry alone when the window is registered, and when it is
\* not it appends the window, without title and outputs, and changes no
\* other entry.
C16_LeaveAbsentRegistersOnly ==
    [][LeaveOfAbsent =>
          /\ focused_top_level_object_id' = focused_top_level_object_id
          /\ top_levels' =
                 IF EntryOf(top_levels, event'.handle) # None
                 THEN top_levels
                 ELSE Append(top_levels,
                             [handle |-> event'.handle, title |-> None,
                              current_outputs |-> <<>>])]_vars

\* An output_leave arrived for a handle that was not registered, while
\* another window was.
C16_Witness ==
    /\ event.kind = "output_leave"
    /\ ~before.known
    /\ Len(top_levels) = 2
    /\ top_levels[2] = [handle |-> event.handle, title |-> None, current_outputs |-> <<>>]

\* C17: a closed event for a handle that is not registered changes neither
\* the registry nor the tracked focus.
C17_CloseUnknownIsNoop ==
    [][(event'.kind = "closed" /\ EntryOf(top_levels, event'.handle) = None)
       => /\ top_levels' = top_levels
          /\ focused_top_level_object_id' = focused_top_level_object_id]_vars

\* A closed event arrived for a handle that was not registered, while
\* another, focused window was.
C17_Witness ==
    /\ event.kind = "closed"
    /\ ~before.known
    /\ top_levels # <<>>
    /\ focused_top_level_object_id # None

WindowEventKinds ==
    {"toplevel", "title", "output_enter", "output_leave", "state", "closed", "done"}

\* C18: the toplevel manager is bound by the step that ends the round-trip
\* and by no other, so no window event is handled inside the round-trip, and
\* every output announced in the round-trip was bound by its handler before
\* the first window event.
C18_ManagerBoundAfterRoundtrip ==
    /\ [][(top_level_manager_bound' /\ ~top_level_manager_bound)
          => /\ pc = "roundtrip"
             /\ pc' = "running"
             /\ bound_outputs' = bound_outputs]_vars
    /\ [][(event'.kind = "global" /\ event'.output # None)
          => event'.output[1] \in bound_outputs']_vars
    /\ [][event'.kind \in WindowEventKinds
          => pc = "running" /\ bound_outputs \subseteq bound_outputs']_vars
    /\ [](pc = "roundtrip" =>
            /\ ~top_level_manager_bound
            /\ top_levels = <<>>
            /\ focused_top_level_object_id = None)

\* The first window event, an output_enter, after a round-trip that
\* announced both outputs.
C18_Witness ==
    /\ pc = "running"
    /\ event.kind = "output_enter"
    /\ ~before.known
    /\ Len(top_levels) = 1
    /\ bound_outputs = Displays

\* C19: the registry never holds two entries with one handle; an event that
\* only calls get_or_create_top_level (toplevel, and the ignored handle
\* events) leaves the registry as it is when the handle is registered and
\* appends one entry without title and outputs when it is not; no window
\* event changes the entry of another handle.
C19_OneEntryPerHandle ==
    /\ [](\A i, j \in 1..Len(top_levels) :
             i # j => top_levels[i].handle # top_levels[j].handle)
    /\ [][event'.kind \in {"toplevel", "done"} =>
             top_levels' =
                 IF EntryOf(top_levels, event'.handle) # None
                 THEN top_levels
                 ELSE Append(top_levels,
                             [handle |-> event'.handle, title |-> None,
                              current_outputs |-> <<>>])]_vars
    /\ [][event'.kind \in WindowEventKinds =>
             \A h \in Handles \ {event'.handle} :
                 EntryOf(top_levels', h) = EntryOf(top_levels, h)]_vars

\* An ignored handle event registered a second window; the first one keeps
\* its title and its output.
C19_Witness ==
    /\ event.kind = "done"
    /\ ~before.known
    /\ Len(top_levels) = 2
    /\ top_levels[1].title # None
    /\ top_levels[1].current_outputs # <<>>
    /\ top_levels[2] = [handle |-> event.handle, title |-> None, current_outputs |-> <<>>]

(***************************************************************************)
(* The window events alone, with the activation history kept beside them.  *)
(***************************************************************************)
\* main has bound the toplevel manager after a round-trip that announced
\* every global, and waits in blocking_dispatch.
TrackInit ==
    /\ DiffIdle
    /\ BurstIdle
    /\ TrackIdle
    /\ pc = "running"
    /\ args \in [sat_level : SatLevels, title_match : {TitleMatch}]
    /\ init = None
    /\ top_levels = <<>>
    /\ focused_top_level_object_id = None
    /\ bound_outputs = Displays
    /\ top_level_manager_bound = TRUE
    /\ outputs_with_custom_ctm = <<>>
    /\ ctm = [d \in Displays |-> IdentityMatrix]
    /\ requests = <<>>
    /\ event = NoEvent
    /\ before = NoBefore

\* The history after the event just handled.
Track ==
    /\ activated' = IF event'.kind = "state" /\ event'.active
                    THEN Some(event'.handle)
                    ELSE activated
    /\ ended_since' = IF event'.kind = "state" /\ event'.active
                      THEN {}
                      ELSE IF event'.kind \in {"state", "closed"}
                           THEN ended_since \cup {event'.handle}
                           ELSE ended_since
    /\ UNCHANGED <<diffVars, burstVars>>

TrackNext ==
    \/ \E h \in Handles : ManagerToplevel(h) /\ Track
    \/ \E h \in Handles, t \in Titles : HandleTitle(h, t) /\ Track
    \/ \E h \in Handles, d \in Displays : HandleOutputEnter(h, d) /\ Track
    \/ \E h \in Handles, d \in Displays : HandleOutputLeave(h, d) /\ Track
    \/ \E h \in Handles, s \in StateArrays : HandleState(h, s) /\ Track
    \/ \E h \in Handles : HandleClosed(h) /\ Track
    \/ \E h \in Handles : HandleOther(h) /\ Track

TrackSpec == TrackInit /\ [][TrackNext]_vars

\* C20: the tracked focus is h exactly when the latest state event with
\* "activated", over all windows, was for h and no state event without
\* "activated" and no closed event for h came after it; otherwise there is
\* no tracked focus.
C20_FocusIsLatestActivation ==
    focused_top_level_object_id =
        IF activated # None /\ activated[1] \notin ended_since
        THEN activated
        ELSE None

\* The latest-activated window was deactivated; the other window is
\* registered and had no deactivation since: there is no tracked focus.
C20_Witness ==
    /\ event.kind = "state"
    /\ ~event.active
    /\ before.focus = Some(event.handle)
    /\ activated = Some(event.handle)
    /\ Len(top_levels) = 2
    /\ ended_since = {event.handle}
    /\ focused_top_level_object_id = None

====
